---------------------------- MODULE Spec2Model ----------------------------
(***************************************************************************)
(* AQVH: a VQE workflow served by a Flask backend (run-vqe, run-vqe-stream, *)
(* hamiltonian, multi-optimizer) and consumed by React pages through       *)
(* services/api.js.  The module models                                      *)
(*   - the streamed pipeline: the generator of run_vqe_stream, the SSE      *)
(*     connection, runVQEStream's EventSource handlers and the real-time    *)
(*     page's callbacks (scenario "stream");                                *)
(*   - the request/response pipeline run_vqe -> VQEService.run_simulation   *)
(*     -> QuantumMoleculeEngine, and HamiltonianService.load_hamiltonian    *)
(*     with its JSON file cache (scenarios "plain" and "cache");            *)
(*   - the optimizer comparison page (scenario "compare").                  *)
(***************************************************************************)
EXTENDS Integers, Sequences, FiniteSets, TLC

VARIABLES
    scenario,   \* which entry point this behaviour exercises
    \* ---- real-time page (VQESimulationRealTime) and its EventSource
    page,       \* the page's React state
    esState,    \* eventSourceRef.current: "none", "open" or "closed"
    prevEs,     \* the EventSource eventSourceRef held before the current one
    calls,      \* callbacks runVQEStream has invoked on the current stream
    runs,       \* runs started from the page
    \* ---- server side of the current stream
    srvPc,      \* position of generate() in run_vqe_stream
    srvMol,     \* molecule_name of the streamed request
    srvMaxIter, \* the max_iter query parameter of the streamed request
    vqe_result, \* what run_vqe_with_streaming_callback returned to generate()
    srvIdx,     \* loop index i of "for i, iter_data in enumerate(...)"
    sent,       \* every event generate() has yielded on the current stream
    wire,       \* yielded events not yet dispatched by the EventSource
    \* ---- request/response backend
    th,         \* per worker thread: position, request, engine, last response
    hamFile,    \* hamiltonians/<molecule>_hamiltonian.json, per molecule
    plots,      \* static/plots/<molecule>_*.png: the request that wrote them last
    stats,      \* counts of build_hamiltonian calls and of answered requests
    reqCount,   \* requests accepted so far
    \* ---- optimizer comparison page (OptimizerComparison) and its request
    cmpPage,    \* the page's React state
    alerts,     \* alert() dialogs the page has raised
    session,    \* the comparison the backend is running for the page
    \* ---- bond length scan page (BondLengthScan) and its request
    scanPage,   \* the page's React state
    scanAlerts, \* alert() dialogs the page has raised
    scan,       \* the sweep the backend is running for the page
    \* ---- staged simulation page (VQESimulation)
    simPage,    \* the page's React state
    simRun      \* runSimulation's position, the convergence timer, alert() count

streamVars ==
    <<page, esState, prevEs, calls, runs, srvPc, srvMol, srvMaxIter, vqe_result, srvIdx, sent, wire>>
backendVars == <<th, hamFile, plots, stats, reqCount>>
compareVars == <<cmpPage, alerts, session>>
sweepVars == <<scanPage, scanAlerts, scan>>
stagedVars == <<simPage, simRun>>
vars == <<scenario, streamVars, backendVars, compareVars, sweepVars, stagedVars>>

----------------------------------------------------------------------------
(* Bounds of the model *)

\* longest iteration list a streamed run produces in the model
MaxRecords == 3
\* runs a user starts from the real-time page
MaxRuns == 2
\* runs a user starts from the staged simulation page
MaxSimRuns == 2
\* points the convergence animation adds during one run
MaxTicks == 2
\* requests the backend accepts in one behaviour
MaxRequests == 2
\* how far above MIN_ITERATIONS the small iteration budgets go
BudgetSpan == 1
\* comparisons a user starts from the optimizer comparison page
MaxComparisons == 1
\* scans a user starts from the bond length scan page
MaxScans == 1
\* the largest number of steps for which every combination of point outcomes
\* is explored
MaxSteps == 3

(* Program constants *)

\* max_iter passed by generate() to run_vqe_with_streaming_callback
StreamMaxIter == 100
\* runVQEStream's fallback: params?.max_iter || 100
DefaultMaxIter == 100

\* MIN_ITERATIONS, MAX_ITERATIONS_LIMIT of app.py
MIN_ITERATIONS == 10
MAX_ITERATIONS_LIMIT == 500
\* data.get('max_iter', 100)
RequestDefaultMaxIter == 100
\* COBYLA(maxiter=min(max_iter, 400))
CobylaCap == 400

\* float('nan'): json.dumps writes it as the token NaN, which JSON.parse rejects
NaN == 1000000

Molecules == {"H2", "LiH"}
\* values the evaluator can report for float(value), scaled to integers
Energies == {-2, -1, NaN}

Min(a, b) == IF a <= b THEN a ELSE b

----------------------------------------------------------------------------
(* The page's list of steps, in display order *)

steps == <<"setup", "initialize", "hamiltonian", "circuit", "vqe", "results">>

\* steps.findIndex(s => s.id === stepId); -1 when there is none
findIndex(stepId) ==
    IF \E i \in 1..Len(steps) : steps[i] = stepId
    THEN (CHOOSE i \in 1..Len(steps) : steps[i] = stepId) - 1
    ELSE -1

----------------------------------------------------------------------------
(* Events of the stream.  An event is a record holding exactly the keys     *)
(* the server put in the JSON object.                                       *)

Has(data, key) == key \in DOMAIN data

\* data.step, "undefined" when the key is absent
StepOf(data) == IF Has(data, "step") THEN data.step ELSE "undefined"
StatusOf(data) == IF Has(data, "status") THEN data.status ELSE "undefined"

\* JavaScript truthiness of data.error (a string when present)
HasError(data) == Has(data, "error") /\ data.error # ""

\* data.progress || 0
ProgressOrZero(data) ==
    IF Has(data, "progress") /\ data.progress # 0 THEN data.progress ELSE 0

\* data.message || ''
MessageOrEmpty(data) == IF Has(data, "message") THEN data.message ELSE ""

\* json.dumps(...) of an event followed by JSON.parse(event.data): the text
\* parses back to the same object unless it holds a non-finite number.
HasNonFinite(data) ==
    /\ Has(data, "data")
    /\ \/ /\ StatusOf(data) = "iterating"
          /\ data.data.energy = NaN
       \/ /\ StepOf(data) = "results"
          /\ data.data.vqe_energy = NaN

JsonDumps(data) == [text |-> data, parses |-> ~HasNonFinite(data)]
ParseThrows(msg) == ~msg.parses
JsonParse(msg) == msg.text


----------------------------------------------------------------------------
(* QuantumMoleculeEngine: the optimizer run as the engine records it *)

\* internal_callback / callback: one record appended per evaluation
callback(iteration_data, eval_count, value) ==
    Append(iteration_data, [iteration |-> eval_count, energy |-> value])

\* what the evaluations values[lo..hi] append to iteration_data; the library
\* numbers the evaluations eval_count = 1, 2, ... (the range is halved so
\* that a run of several hundred evaluations is computed at small depth)
RECURSIVE RecordedFrom(_, _, _)
RecordedFrom(values, lo, hi) ==
    IF lo > hi THEN <<>>
    ELSE IF lo = hi THEN callback(<<>>, lo, values[lo])
    ELSE LET mid == (lo + hi) \div 2
         IN  RecordedFrom(values, lo, mid) \o RecordedFrom(values, mid + 1, hi)

\* iteration_data after the optimizer made the evaluations values[1..n]
Recorded(values) == RecordedFrom(values, 1, Len(values))

\* the value sequences of a run that makes n evaluations: every sequence for
\* a short run, the constant ones for a long run
Trajectories(n) ==
    IF n <= MaxRecords THEN [1..n -> Energies]
    ELSE { [i \in 1..n |-> e] : e \in Energies }

\* run_vqe_with_streaming_callback: the results an optimizer limited to
\* maxiter iterations can return (one recorded evaluation per iteration)
StreamingRuns(maxiter) ==
    { [success |-> TRUE, vqe_energy |-> e, iterations |-> Recorded(tr)] :
        e \in Energies,
        tr \in UNION { Trajectories(n) : n \in 1..Min(maxiter, MaxRecords) } }

NoResult == [success |-> FALSE]

----------------------------------------------------------------------------
(* run_vqe_stream.generate(): the events of one streamed request *)

Ev(step, status, progress) ==
    [step |-> step, status |-> status, progress |-> progress]
EvMsg(step, status, progress, message) ==
    [step |-> step, status |-> status, progress |-> progress, message |-> message]
EvData(step, status, progress, data) ==
    [step |-> step, status |-> status, progress |-> progress, data |-> data]
\* mutant: the error event is given a stage, a status and a progress
EvError_Staged(message) ==
    [step |-> "vqe", status |-> "error", progress |-> 0, message |-> message]

\* except Exception as e: {'error': str(e)}
EvError(message) == [error |-> message]

\* mutant: the stage's entry percentage is not added
IterProgress_NoBase(i, n) == (i * 40) \div n

\* progress = 50 + int((i / len(iterations)) * 40)
IterProgress(i, n) == 50 + ((i * 40) \div n)

\* final_results of a streamed run
FinalResults(mol, res) ==
    [molecule |-> mol, vqe_energy |-> res.vqe_energy,
     num_iterations |-> Len(res.iterations)]

\* a yield: the event goes out on the connection while the client holds it open
Yield(ev) ==
    /\ sent' = Append(sent, ev)
    /\ wire' = IF esState = "open" THEN Append(wire, JsonDumps(ev)) ELSE wire

GenInitRunning ==
    /\ srvPc = "start"
    /\ Yield(EvMsg("initialize", "running", 0, "Initializing..."))
    /\ srvPc' = "engine"
    /\ UNCHANGED <<scenario, stagedVars, compareVars, sweepVars, backendVars, page, esState, calls, runs, prevEs, srvMol, srvMaxIter, vqe_result, srvIdx>>

GenInitComplete ==
    /\ srvPc = "engine"
    /\ Yield(EvData("initialize", "complete", 10, [molecule |-> srvMol]))
    /\ srvPc' = "hamiltonian"
    /\ UNCHANGED <<scenario, stagedVars, compareVars, sweepVars, backendVars, page, esState, calls, runs, prevEs, srvMol, srvMaxIter, vqe_result, srvIdx>>

\* mutant: the hamiltonian stage is left out of the generator
GenHamRunning_Skipped ==
    /\ srvPc = "hamiltonian"
    /\ Yield(Ev("circuit", "running", 35))
    /\ srvPc' = "draw"
    /\ UNCHANGED <<scenario, stagedVars, compareVars, sweepVars, backendVars, page, esState, calls, runs, prevEs, srvMol, srvMaxIter, vqe_result, srvIdx>>

GenHamRunning ==
    /\ srvPc = "hamiltonian"
    /\ Yield(EvMsg("hamiltonian", "running", 15, "Running PySCF..."))
    /\ srvPc' = "build"
    /\ UNCHANGED <<scenario, stagedVars, compareVars, sweepVars, backendVars, page, esState, calls, runs, prevEs, srvMol, srvMaxIter, vqe_result, srvIdx>>

\* what build_hamiltonian returns: the caller in VQEService.run_simulation
\* tests ham_result['success'], so a failed construction can come back as a
\* result with success False as well as by an exception
HamResult(mol, ok) == [molecule |-> mol, success |-> ok]

\* self.hamiltonian is assigned only by a construction that succeeded
BuiltOk ==
    \E i \in 1..Len(sent) :
      /\ StepOf(sent[i]) = "hamiltonian"
      /\ StatusOf(sent[i]) = "complete"
      /\ sent[i].data.success

\* ham_result = engine.build_hamiltonian(), then the hamiltonian/complete
\* event with ham_result as its data, whatever its success flag
GenHamComplete ==
    /\ srvPc = "build"
    /\ \E ok \in BOOLEAN :
         Yield(EvData("hamiltonian", "complete", 30, HamResult(srvMol, ok)))
    /\ srvPc' = "circuit"
    /\ UNCHANGED <<scenario, stagedVars, compareVars, sweepVars, backendVars, page, esState, calls, runs, prevEs, srvMol, srvMaxIter, vqe_result, srvIdx>>

\* build_hamiltonian raises: the except clause yields the error event
GenHamFails ==
    /\ srvPc = "build"
    /\ Yield(EvError("build_hamiltonian failed"))
    /\ srvPc' = "done"
    /\ UNCHANGED <<scenario, stagedVars, compareVars, sweepVars, backendVars, page, esState, calls, runs, prevEs, srvMol, srvMaxIter, vqe_result, srvIdx>>

GenCircuitRunning ==
    /\ srvPc = "circuit"
    /\ Yield(Ev("circuit", "running", 35))
    /\ srvPc' = "draw"
    /\ UNCHANGED <<scenario, stagedVars, compareVars, sweepVars, backendVars, page, esState, calls, runs, prevEs, srvMol, srvMaxIter, vqe_result, srvIdx>>

\* engine.generate_circuit_image(...): a derivation from the engine's circuit
\* that returns the image path and does not raise
CircuitImageOutcomes == {"path"}

\* mutant: drawing the circuit raises and the except clause ends the stream
GenCircuitComplete_Raises ==
    /\ srvPc = "draw"
    /\ Yield(EvError("generate_circuit_image failed"))
    /\ srvPc' = "done"
    /\ UNCHANGED <<scenario, stagedVars, compareVars, sweepVars, backendVars, page, esState, calls, runs, prevEs, srvMol, srvMaxIter, vqe_result, srvIdx>>

\* circuit_path = engine.generate_circuit_image(...), then circuit/complete
GenCircuitComplete ==
    /\ srvPc = "draw"
    /\ \E outcome \in CircuitImageOutcomes :
         IF outcome = "path"
           THEN /\ Yield(EvData("circuit", "complete", 45, [molecule |-> srvMol]))
                /\ srvPc' = "vqe"
           ELSE /\ Yield(EvError("generate_circuit_image failed"))
                /\ srvPc' = "done"
    /\ UNCHANGED <<scenario, stagedVars, compareVars, sweepVars, backendVars, page, esState, calls, runs, prevEs, srvMol, srvMaxIter, vqe_result, srvIdx>>

GenVqeRunning ==
    /\ srvPc = "vqe"
    /\ Yield(Ev("vqe", "running", 50))
    /\ srvPc' = "optimize"
    /\ UNCHANGED <<scenario, stagedVars, compareVars, sweepVars, backendVars, page, esState, calls, runs, prevEs, srvMol, srvMaxIter, vqe_result, srvIdx>>

\* the runs of the optimizer the model follows: all of them, or under fair
\* scheduling those of a single evaluation
StreamRunsFollowed ==
    IF scenario = "live"
      THEN { [success |-> TRUE, vqe_energy |-> e, iterations |-> Recorded(<<e>>)] :
               e \in Energies }
      ELSE StreamingRuns(StreamMaxIter)

\* vqe_result = engine.run_vqe_with_streaming_callback(max_iter=100), which
\* returns a result only when self.hamiltonian has been built
GenOptimize ==
    /\ srvPc = "optimize"
    /\ BuiltOk
    /\ \E res \in StreamRunsFollowed : vqe_result' = res
    /\ srvPc' = "loop"
    /\ srvIdx' = 0
    /\ UNCHANGED <<scenario, stagedVars, compareVars, sweepVars, backendVars, page, esState, calls, runs, prevEs, srvMol, srvMaxIter, sent, wire>>

\* the optimizer run raises
GenOptimizeFails ==
    /\ srvPc = "optimize"
    /\ Yield(EvError("VQE failed"))
    /\ srvPc' = "done"
    /\ UNCHANGED <<scenario, stagedVars, compareVars, sweepVars, backendVars, page, esState, calls, runs, prevEs, srvMol, srvMaxIter, vqe_result, srvIdx>>

\* for i, iter_data in enumerate(vqe_result['iterations'])
GenIterate ==
    /\ srvPc = "loop"
    /\ srvIdx < Len(vqe_result.iterations)
    /\ Yield(EvData("vqe", "iterating",
                    IterProgress(srvIdx, Len(vqe_result.iterations)),
                    vqe_result.iterations[srvIdx + 1]))
    /\ srvIdx' = srvIdx + 1
    /\ UNCHANGED <<scenario, stagedVars, compareVars, sweepVars, backendVars, page, esState, calls, runs, prevEs, srvPc, srvMol, srvMaxIter, vqe_result>>

GenResults ==
    /\ srvPc = "loop"
    /\ srvIdx = Len(vqe_result.iterations)
    /\ Yield(EvData("results", "complete", 100, FinalResults(srvMol, vqe_result)))
    /\ srvPc' = "done"
    /\ UNCHANGED <<scenario, stagedVars, compareVars, sweepVars, backendVars, page, esState, calls, runs, prevEs, srvMol, srvMaxIter, vqe_result, srvIdx>>

generate ==
    \/ GenInitRunning \/ GenInitComplete
    \/ GenHamRunning \/ GenHamComplete \/ GenHamFails
    \/ GenCircuitRunning \/ GenCircuitComplete
    \/ GenVqeRunning \/ GenOptimize \/ GenOptimizeFails
    \/ GenIterate \/ GenResults

----------------------------------------------------------------------------
(* VQESimulationRealTime: the page's state and its three callbacks *)

NullData == [null |-> TRUE]

\* useState defaults / resetSimulation's assignments
CleanPage ==
    [running |-> FALSE, error |-> "null", currentStep |-> "setup", progress |-> 0,
     statusMessage |-> "Ready to start", initData |-> NullData,
     hamiltonianData |-> NullData, circuitData |-> NullData,
     vqeIterations |-> <<>>, finalResults |-> NullData]

\* resetSimulation leaves running as it is
resetSimulation(p) == [CleanPage EXCEPT !.running = p.running]

\* mutant: a new record is put in front of the page's iteration list
onMessage_Prepends(p, data) ==
    LET q == [p EXCEPT !.currentStep = StepOf(data),
                       !.progress = ProgressOrZero(data),
                       !.statusMessage = MessageOrEmpty(data)]
    IN  IF StepOf(data) = "vqe" /\ StatusOf(data) = "iterating"
          THEN [q EXCEPT !.vqeIterations = <<data.data>> \o q.vqeIterations]
        ELSE IF StepOf(data) = "results" /\ StatusOf(data) = "complete"
          THEN [q EXCEPT !.finalResults = data.data]
        ELSE q

\* mutant: the page does not keep the records of vqe/iterating events
onMessage_DropsIterating(p, data) ==
    [p EXCEPT !.currentStep = StepOf(data),
              !.progress = ProgressOrZero(data),
              !.statusMessage = MessageOrEmpty(data),
              !.finalResults = IF StepOf(data) = "results" /\ Has(data, "data")
                                 THEN data.data ELSE @]

\* (data) => { ... }: the onMessage callback given to runVQEStream
onMessage(p, data) ==
    LET q == [p EXCEPT !.currentStep = StepOf(data),
                       !.progress = ProgressOrZero(data),
                       !.statusMessage = MessageOrEmpty(data)]
        payload == IF Has(data, "data") THEN data.data ELSE NullData
    IN  IF StepOf(data) = "initialize" /\ StatusOf(data) = "complete"
          THEN [q EXCEPT !.initData = payload]
        ELSE IF StepOf(data) = "hamiltonian" /\ StatusOf(data) = "complete"
          THEN [q EXCEPT !.hamiltonianData = payload]
        ELSE IF StepOf(data) = "circuit" /\ StatusOf(data) = "complete"
          THEN [q EXCEPT !.circuitData = payload]
        ELSE IF StepOf(data) = "vqe" /\ StatusOf(data) = "iterating"
          THEN [q EXCEPT !.vqeIterations = Append(q.vqeIterations, payload)]
        ELSE IF StepOf(data) = "results" /\ StatusOf(data) = "complete"
          THEN [q EXCEPT !.finalResults = payload]
        ELSE q

\* mutant: the error callback records the error and leaves running set
onError_KeepsRunning(p, err) == [p EXCEPT !.error = err]

\* (err) => { setError(err); setRunning(false) }
onError(p, err) == [p EXCEPT !.error = err, !.running = FALSE]

\* (finalData) => { setFinalResults; setRunning(false); setStatusMessage }
onComplete(p, finalData) ==
    [p EXCEPT !.finalResults = finalData, !.running = FALSE,
              !.statusMessage = "Simulation complete!"]

----------------------------------------------------------------------------
(* api.runVQEStream: the EventSource and its two handlers *)

\* mutant: the results branch does not close the EventSource
onmessage_NoClose(p, msg) ==
    IF ParseThrows(msg)
      THEN [page |-> onError(p, "Unexpected token"), made |-> <<"onError">>,
            close |-> TRUE]
    ELSE LET data == JsonParse(msg) IN
      IF HasError(data)
        THEN [page |-> onError(p, data.error), made |-> <<"onError">>,
              close |-> TRUE]
      ELSE IF StepOf(data) = "results" /\ StatusOf(data) = "complete"
        THEN [page |-> onComplete(onMessage(p, data), data.data),
              made |-> <<"onMessage", "onComplete">>, close |-> FALSE]
      ELSE [page |-> onMessage(p, data), made |-> <<"onMessage">>,
            close |-> FALSE]

\* mutant: a message with an error field is also handed to onMessage, and a
\* message that does not parse leaves the EventSource open
onmessage_ErrorDelivered(p, msg) ==
    IF ParseThrows(msg)
      THEN [page |-> onError(p, "Unexpected token"), made |-> <<"onError">>,
            close |-> FALSE]
    ELSE LET data == JsonParse(msg) IN
      IF HasError(data)
        THEN [page |-> onError(onMessage(p, data), data.error),
              made |-> <<"onMessage", "onError">>, close |-> TRUE]
      ELSE IF StepOf(data) = "results" /\ StatusOf(data) = "complete"
        THEN [page |-> onComplete(onMessage(p, data), data.data),
              made |-> <<"onMessage", "onComplete">>, close |-> TRUE]
      ELSE [page |-> onMessage(p, data), made |-> <<"onMessage">>,
            close |-> FALSE]

\* what eventSource.onmessage does with one dispatched message:
\* the page after it, the callbacks it made, and whether it closed the source
onmessage(p, msg) ==
    IF ParseThrows(msg)
      THEN [page |-> onError(p, "Unexpected token"), made |-> <<"onError">>,
            close |-> TRUE]
    ELSE LET data == JsonParse(msg) IN
      IF HasError(data)
        THEN [page |-> onError(p, data.error), made |-> <<"onError">>,
              close |-> TRUE]
      ELSE IF StepOf(data) = "results" /\ StatusOf(data) = "complete"
        THEN [page |-> onComplete(onMessage(p, data), data.data),
              made |-> <<"onMessage", "onComplete">>, close |-> TRUE]
      ELSE [page |-> onMessage(p, data), made |-> <<"onMessage">>,
            close |-> FALSE]

\* the browser dispatches the next message of an open EventSource
EsMessage ==
    /\ esState = "open"
    /\ wire # <<>>
    /\ LET r == onmessage(page, Head(wire)) IN
         /\ page' = r.page
         /\ calls' = calls \o r.made
         /\ esState' = IF r.close THEN "closed" ELSE "open"
         /\ wire' = IF r.close THEN <<>> ELSE Tail(wire)
    /\ UNCHANGED <<scenario, stagedVars, compareVars, sweepVars, backendVars, runs, prevEs, srvPc, srvMol, srvMaxIter, vqe_result, srvIdx, sent>>

\* mutant: onerror reports the loss but leaves the EventSource open
EsError_NoClose ==
    /\ esState = "open"
    /\ page' = onError(page, "Connection to server lost")
    /\ calls' = Append(calls, "onError")
    /\ UNCHANGED <<esState, wire>>
    /\ UNCHANGED <<scenario, stagedVars, compareVars, sweepVars, backendVars, runs, prevEs, srvPc, srvMol, srvMaxIter, vqe_result, srvIdx, sent>>

\* eventSource.onerror: the connection failed or was lost
EsError ==
    /\ esState = "open"
    /\ page' = onError(page, "Connection to server lost")
    /\ calls' = Append(calls, "onError")
    /\ esState' = "closed"
    /\ wire' = <<>>
    /\ UNCHANGED <<scenario, stagedVars, compareVars, sweepVars, backendVars, runs, prevEs, srvPc, srvMol, srvMaxIter, vqe_result, srvIdx, sent>>

\* setMaxIterations(parseInt(e.target.value)): the values of the iterations
\* input tried, an empty input (NaN) and a number below the server's minimum
MaxIterationsInputs == {[nan |-> TRUE], [num |-> MIN_ITERATIONS - 1]}

\* const maxIter = params?.max_iter || 100, put in the URL's query string
QueryMaxIter(maxIterations) ==
    IF "num" \in DOMAIN maxIterations /\ maxIterations.num # 0
      THEN maxIterations.num ELSE DefaultMaxIter

\* if (eventSourceRef.current) eventSourceRef.current.close()
closeSource(es) == IF es = "open" THEN "closed" ELSE es

\* mutant: the Start button stays enabled during a run and resetSimulation
\* leaves the EventSource alone
runSimulation_KeepsSource ==
    /\ scenario \in {"stream", "live"}
    /\ runs < MaxRuns
    /\ \E m \in Molecules : srvMol' = m
    /\ \E maxIterations \in MaxIterationsInputs : srvMaxIter' = QueryMaxIter(maxIterations)
    /\ page' = resetSimulation([page EXCEPT !.running = TRUE, !.error = "null"])
    /\ prevEs' = esState
    /\ esState' = "open"
    /\ calls' = <<>>
    /\ runs' = runs + 1
    /\ srvPc' = "start"
    /\ vqe_result' = NoResult
    /\ srvIdx' = 0
    /\ sent' = <<>>
    /\ wire' = <<>>
    /\ UNCHANGED <<scenario, stagedVars, compareVars, sweepVars, backendVars>>

\* the Start button (disabled while running): setRunning(true), setError(null),
\* resetSimulation(), then runVQEStream opens a new EventSource and the server
\* starts generate() for the request
runSimulation ==
    /\ scenario \in {"stream", "live"}
    /\ ~page.running
    /\ runs < MaxRuns
    /\ \E m \in Molecules : srvMol' = m
    /\ \E maxIterations \in MaxIterationsInputs : srvMaxIter' = QueryMaxIter(maxIterations)
    /\ page' = resetSimulation([page EXCEPT !.running = TRUE, !.error = "null"])
    /\ prevEs' = closeSource(esState)
    /\ esState' = "open"
    /\ calls' = <<>>
    /\ runs' = runs + 1
    /\ srvPc' = "start"
    /\ vqe_result' = NoResult
    /\ srvIdx' = 0
    /\ sent' = <<>>
    /\ wire' = <<>>
    /\ UNCHANGED <<scenario, stagedVars, compareVars, sweepVars, backendVars>>

----------------------------------------------------------------------------
(* The streamed pipeline *)

InitStreamVars ==
    /\ page = CleanPage
    /\ esState = "none"
    /\ prevEs = "none"
    /\ calls = <<>>
    /\ runs = 0
    /\ srvPc = "idle"
    /\ srvMol = "H2"
    /\ srvMaxIter = DefaultMaxIter
    /\ vqe_result = NoResult
    /\ srvIdx = 0
    /\ sent = <<>>
    /\ wire = <<>>


----------------------------------------------------------------------------
(* Properties of the streamed pipeline *)

\* the last event generate() yielded is the results/complete event
StreamCompleted ==
    /\ sent # <<>>
    /\ StepOf(sent[Len(sent)]) = "results"
    /\ StatusOf(sent[Len(sent)]) = "complete"

Stages == {"initialize", "hamiltonian", "circuit", "vqe", "results"}

\* C1: the events of a streamed run name the stages in the fixed order
\* initialize, hamiltonian, circuit, vqe, results: the first event is for
\* initialize, each event's stage is the stage of the previous event or its
\* immediate successor, and a completed run has visited all five stages.
C1_StageOrder ==
    /\ sent # <<>> => StepOf(sent[1]) = "initialize"
    /\ \A i \in 1..(Len(sent) - 1) :
         Has(sent[i + 1], "step") =>
           /\ Has(sent[i], "step")
           /\ findIndex(StepOf(sent[i])) >= 1
           /\ findIndex(StepOf(sent[i + 1])) - findIndex(StepOf(sent[i])) \in {0, 1}
    /\ StreamCompleted => { StepOf(sent[i]) : i \in 1..Len(sent) } = Stages

\* a run that went through every stage with several iterations
C1_Witness ==
    /\ StreamCompleted
    /\ srvPc = "done"
    /\ Len(vqe_result.iterations) >= 2

IsTerminal(c) == c \in {"onComplete", "onError"}
Terminals == { i \in 1..Len(calls) : IsTerminal(calls[i]) }

\* C2: on one stream the subscriber gets at most one terminal notification
\* (onComplete or onError), no callback follows it, and a stream that
\* runVQEStream has closed has delivered exactly one.
C2_OneTerminal ==
    /\ Cardinality(Terminals) <= 1
    /\ \A i \in Terminals : i = Len(calls)
    /\ Terminals # {} => esState = "closed"
    /\ esState = "closed" => Cardinality(Terminals) = 1

\* a stream that delivered messages and was then cut by a connection error
\* while the server kept yielding
C2_Witness ==
    /\ Len(calls) >= 3
    /\ calls[Len(calls)] = "onError"
    /\ page.error = "Connection to server lost"
    /\ Len(sent) > Len(calls)

\* the progress values of the events before the iterations, in order
FixedProgress == <<0, 10, 15, 30, 35, 45, 50>>

\* the progress the k-th event of a run must carry
ExpectedProgress(k) ==
    IF k <= Len(FixedProgress) THEN FixedProgress[k]
    ELSE IF k <= Len(FixedProgress) + Len(vqe_result.iterations)
      THEN 50 + (40 * (k - Len(FixedProgress) - 1)) \div Len(vqe_result.iterations)
    ELSE 100

ServerProgressOrdered ==
    /\ \A k \in 1..Len(sent) :
         Has(sent[k], "progress") => sent[k].progress = ExpectedProgress(k)
    /\ \A j, k \in 1..Len(sent) :
         (j < k /\ Has(sent[j], "progress") /\ Has(sent[k], "progress"))
            => sent[j].progress <= sent[k].progress

----------------------------------------------------------------------------
(* The request/response backend: app.py, VQEService, HamiltonianService and  *)
(* QuantumMoleculeEngine, served by worker threads                          *)

Threads == {"t1", "t2"}

\* SUPPORTED_MOLECULES, and a name that is not among them
MoleculeInputs == Molecules \cup {"He"}

\* the max_iter values a request body carries in the model
BudgetInputs ==
    ((MIN_ITERATIONS - 1)..(MIN_ITERATIONS + BudgetSpan))
        \cup {MAX_ITERATIONS_LIMIT, MAX_ITERATIONS_LIMIT + 1}

\* JSON bodies of a run-vqe request: with max_iter, or without it
Bodies == { [max_iter |-> b] : b \in BudgetInputs } \cup { <<>> }

\* data.get('max_iter', 100)
GetMaxIter(body) ==
    IF "max_iter" \in DOMAIN body THEN body.max_iter ELSE RequestDefaultMaxIter

\* molecule_data['electrons']
electrons(mol) == IF mol = "H2" THEN 2 ELSE 4

\* mutant: the optimizer ignores the request's max_iter (hardcoded default)
OptimizerFor_Hardcoded(mol, max_iter) ==
    IF electrons(mol) > 2
      THEN [name |-> "COBYLA", maxiter |-> Min(RequestDefaultMaxIter, CobylaCap)]
      ELSE [name |-> "SLSQP", maxiter |-> RequestDefaultMaxIter]

\* if electrons > 2: COBYLA(maxiter=min(max_iter, 400)) else SLSQP(maxiter=max_iter)
OptimizerFor(mol, max_iter) ==
    IF electrons(mol) > 2
      THEN [name |-> "COBYLA", maxiter |-> Min(max_iter, CobylaCap)]
      ELSE [name |-> "SLSQP", maxiter |-> max_iter]

\* the numbers of evaluations the model lets a run limited to maxiter make:
\* the short runs and the run that exhausts the limit
EvalCounts(maxiter) == { n \in 1..maxiter : n <= MaxRecords \/ n = maxiter }

\* mutant: the count is taken from the optimizer's limit, not from the list
RunVqeResult_CountsLimit(iteration_data, eigenvalue, opt) ==
    [success |-> TRUE, vqe_energy |-> eigenvalue, iterations |-> iteration_data,
     num_iterations |-> opt.maxiter, optimizer |-> opt.name]

\* run_vqe's return value
RunVqeResult(iteration_data, eigenvalue, opt) ==
    [success |-> TRUE, vqe_energy |-> eigenvalue, iterations |-> iteration_data,
     num_iterations |-> Len(iteration_data), optimizer |-> opt.name]

\* engine.run_vqe(max_iter): the results the optimizer chosen for the molecule
\* can return (one recorded evaluation per iteration)
run_vqe(mol, max_iter) ==
    LET opt == OptimizerFor(mol, max_iter) IN
    { RunVqeResult(Recorded(tr), e, opt) :
        e \in Energies,
        tr \in UNION { Trajectories(n) : n \in EvalCounts(opt.maxiter) } }

\* the runs the model follows: all of run_vqe's results when requests are
\* served one at a time, the runs of a single evaluation when two workers
\* run the pipeline at once
VqeRuns(mol, max_iter) ==
    IF scenario = "parallel"
      THEN { RunVqeResult(Recorded(<<e>>), e, OptimizerFor(mol, max_iter)) :
               e \in Energies }
      ELSE run_vqe(mol, max_iter)

NoRequest == [kind |-> "none"]
NoEngine == [hamiltonian |-> FALSE, iteration_data |-> <<>>, vqe_result |-> NoResult]
NoResponse == [status |-> 0]
IdleThread == [pc |-> "idle", req |-> NoRequest, engine |-> NoEngine, resp |-> NoResponse]

ErrorResponse(id, message) ==
    [status |-> 400, id |-> id, success |-> FALSE, error |-> message]

\* which thread serves which endpoint in the scenario at hand
Serves(t, kind) ==
    \/ scenario = "plain" /\ t = "t1"
    \/ scenario = "cache" /\ kind = "ham"
    \/ scenario = "parallel" /\ kind = "vqe"

Bump(counter, mol) == [stats EXCEPT ![counter][mol] = @ + 1]

\* POST /api/run-vqe/<molecule_name>: @validate_molecule, then the check of
\* max_iter; a request that passes both enters VQEService.run_simulation
AcceptVqe(t) ==
    /\ Serves(t, "vqe")
    /\ th[t].pc = "idle"
    /\ reqCount < MaxRequests
    /\ reqCount' = reqCount + 1
    /\ \E mol \in MoleculeInputs, body \in Bodies :
         LET id == reqCount + 1
             req == [kind |-> "vqe", id |-> id, molecule |-> mol, body |-> body,
                     max_iter |-> GetMaxIter(body)]
         IN  IF mol \notin Molecules
               THEN th' = [th EXCEPT ![t] = [IdleThread EXCEPT !.req = req,
                             !.resp = ErrorResponse(id, "Unsupported molecule")]]
             ELSE IF req.max_iter < MIN_ITERATIONS \/ req.max_iter > MAX_ITERATIONS_LIMIT
               THEN th' = [th EXCEPT ![t] = [IdleThread EXCEPT !.req = req,
                             !.resp = ErrorResponse(id, "Iterations must be 10-500")]]
             ELSE th' = [th EXCEPT ![t] = [IdleThread EXCEPT !.pc = "build", !.req = req]]
    /\ UNCHANGED <<scenario, stagedVars, compareVars, sweepVars, streamVars, hamFile, plots, stats>>

\* mutant: run_simulation takes the Hamiltonian from the file cache when it is there
VqeBuild_UsesCache(t) ==
    /\ th[t].pc = "build"
    /\ LET mol == th[t].req.molecule IN
         /\ th' = [th EXCEPT ![t].pc = "optimize", ![t].engine.hamiltonian = TRUE]
         /\ stats' = IF hamFile[mol].saved THEN stats ELSE Bump("vqeBuilds", mol)
    /\ UNCHANGED <<scenario, stagedVars, compareVars, sweepVars, streamVars, hamFile, plots, reqCount>>

\* run_simulation: engine = QuantumMoleculeEngine(molecule_name);
\* ham_result = engine.build_hamiltonian(); a failed build is returned as an error
VqeBuild(t) ==
    /\ th[t].pc = "build"
    /\ LET mol == th[t].req.molecule IN
       \E ok \in BOOLEAN :
         IF ok
           THEN /\ stats' = Bump("vqeBuilds", mol)
                /\ th' = [th EXCEPT ![t].pc = "optimize", ![t].engine.hamiltonian = TRUE]
           ELSE /\ stats' = [stats EXCEPT !["vqeBuilds"][mol] = @ + 1,
                                          !["vqeAnswered"][mol] = @ + 1]
                /\ th' = [th EXCEPT ![t].pc = "idle",
                            ![t].resp = ErrorResponse(th[t].req.id, "build_hamiltonian failed")]
    /\ UNCHANGED <<scenario, stagedVars, compareVars, sweepVars, streamVars, hamFile, plots, reqCount>>

\* vqe_result = engine.run_vqe(max_iter=max_iter); a failed run is returned as an error
VqeOptimize(t) ==
    /\ th[t].pc = "optimize"
    /\ LET req == th[t].req IN
       \/ \E res \in VqeRuns(req.molecule, req.max_iter) :
            /\ th' = [th EXCEPT ![t].pc = "plots",
                        ![t].engine.iteration_data = res.iterations,
                        ![t].engine.vqe_result = res]
            /\ UNCHANGED stats
       \/ /\ th' = [th EXCEPT ![t].pc = "idle",
                      ![t].resp = ErrorResponse(req.id, "VQE failed")]
          /\ stats' = Bump("vqeAnswered", req.molecule)
    /\ UNCHANGED <<scenario, stagedVars, compareVars, sweepVars, streamVars, hamFile, plots, reqCount>>

\* generate_circuit_image, generate_energy_plot, then the result is returned
VqeRespond(t) ==
    /\ th[t].pc = "plots"
    /\ LET req == th[t].req
           res == th[t].engine.vqe_result
       IN  /\ plots' = [plots EXCEPT ![req.molecule] = req.id]
           /\ th' = [th EXCEPT ![t].pc = "idle",
                       ![t].resp = [status |-> 200, id |-> req.id, success |-> TRUE,
                                    molecule |-> req.molecule,
                                    vqe_energy |-> res.vqe_energy,
                                    num_iterations |-> res.num_iterations,
                                    iterations |-> res.iterations,
                                    circuit_image |-> req.molecule,
                                    energy_plot |-> req.molecule]]
           /\ stats' = [stats EXCEPT !["vqeAnswered"][req.molecule] = @ + 1,
                                     !["vqeOk"][req.molecule] = @ + 1]
    /\ UNCHANGED <<scenario, stagedVars, compareVars, sweepVars, streamVars, hamFile, reqCount>>

NextVqe(t) == AcceptVqe(t) \/ VqeBuild(t) \/ VqeOptimize(t) \/ VqeRespond(t)

\* GET /api/hamiltonian/<molecule_name>: @validate_molecule, then
\* HamiltonianService.load_hamiltonian(molecule_name, 'hamiltonians')
AcceptHam(t) ==
    /\ Serves(t, "ham")
    /\ th[t].pc = "idle"
    /\ reqCount < MaxRequests
    /\ reqCount' = reqCount + 1
    /\ \E mol \in MoleculeInputs :
         LET id == reqCount + 1
             req == [kind |-> "ham", id |-> id, molecule |-> mol]
         IN  IF mol \notin Molecules
               THEN th' = [th EXCEPT ![t] = [IdleThread EXCEPT !.req = req,
                             !.resp = ErrorResponse(id, "Unsupported molecule")]]
               ELSE th' = [th EXCEPT ![t] = [IdleThread EXCEPT !.pc = "check", !.req = req]]
    /\ UNCHANGED <<scenario, stagedVars, compareVars, sweepVars, streamVars, hamFile, plots, stats>>

HamResponse(req, builder) ==
    [status |-> 200, id |-> req.id, success |-> TRUE, molecule |-> req.molecule,
     artifact |-> builder]

\* load_hamiltonian: "Checks if hamiltonians/<molecule>_hamiltonian.json exists";
\* the file that exists is read and returned
HamCheck(t) ==
    /\ th[t].pc = "check"
    /\ LET req == th[t].req IN
         IF hamFile[req.molecule].saved
           THEN /\ th' = [th EXCEPT ![t].pc = "idle",
                            ![t].resp = HamResponse(req, hamFile[req.molecule].by)]
                /\ stats' = Bump("hamOk", req.molecule)
           ELSE /\ th' = [th EXCEPT ![t].pc = "generate"]
                /\ UNCHANGED stats
    /\ UNCHANGED <<scenario, stagedVars, compareVars, sweepVars, streamVars, hamFile, plots, reqCount>>

\* "If not, generates it: creates QuantumMoleculeEngine, calls build_hamiltonian()"
HamBuild(t) ==
    /\ th[t].pc = "generate"
    /\ LET req == th[t].req IN
       \E ok \in BOOLEAN :
         IF ok
           THEN /\ th' = [th EXCEPT ![t].pc = "save", ![t].engine.hamiltonian = TRUE]
                /\ stats' = [stats EXCEPT !["hamBuilds"][req.molecule] = @ + 1,
                                          !["hamBuildsOk"][req.molecule] = @ + 1]
           ELSE /\ th' = [th EXCEPT ![t].pc = "idle",
                            ![t].resp = ErrorResponse(req.id, "build_hamiltonian failed")]
                /\ stats' = Bump("hamBuilds", req.molecule)
    /\ UNCHANGED <<scenario, stagedVars, compareVars, sweepVars, streamVars, hamFile, plots, reqCount>>

\* "Saves to JSON", then "Returns JSON response"
HamSave(t) ==
    /\ th[t].pc = "save"
    /\ LET req == th[t].req IN
         /\ hamFile' = [hamFile EXCEPT ![req.molecule] = [saved |-> TRUE, by |-> req.id]]
         /\ th' = [th EXCEPT ![t].pc = "idle", ![t].resp = HamResponse(req, req.id)]
         /\ stats' = Bump("hamOk", req.molecule)
    /\ UNCHANGED <<scenario, stagedVars, compareVars, sweepVars, streamVars, plots, reqCount>>

NextHam(t) == AcceptHam(t) \/ HamCheck(t) \/ HamBuild(t) \/ HamSave(t)

Counters == {"vqeBuilds", "vqeAnswered", "vqeOk", "hamBuilds", "hamBuildsOk", "hamOk"}

\* the optimizer comparison page before its first request
NoKeys == [keys |-> <<>>, at |-> <<>>]
NoResults == [null |-> TRUE]
CleanComparePage == [selectedMolecule |-> "H2", running |-> FALSE, results |-> NoResults]
NoSession == [pc |-> "none", started |-> 0, molecule |-> "H2",
              optimizers |-> NoKeys, errors |-> <<>>, failed |-> FALSE,
              alertsAtStart |-> 0]
InitCompareVars ==
    /\ cmpPage = CleanComparePage
    /\ alerts = 0
    /\ session = NoSession

\* JavaScript values that are not plain numbers: null, and the NaN that
\* parseInt and parseFloat give for an empty input
JNull == [null |-> TRUE]
JNaN == [nan |-> TRUE]

\* useState({ start: 0.5, end: 2.0, steps: 10 }); lengths are in tenths of an
\* angstrom (the inputs step by 0.1)
Num(n) == [num |-> n]
IsNumber(x) == "num" \in DOMAIN x
DefaultParams == [start |-> Num(5), end |-> Num(20), steps |-> Num(10)]

\* the bond length scan page before its first request
CleanScanPage ==
    [selectedMolecule |-> "H2", scanning |-> FALSE, results |-> JNull,
     params |-> DefaultParams]
NoScan == [pc |-> "none", started |-> 0, body |-> JNull, vqe_energies |-> <<>>,
           alertsAtStart |-> 0]

InitSweepVars ==
    /\ scanPage = CleanScanPage
    /\ scanAlerts = 0
    /\ scan = NoScan

\* useState(100) of the staged page's iterations field
SimDefaultMaxIter == 100

\* stageData as resetSimulation leaves it
NoStageData == [hamiltonian |-> "null", circuit |-> "null", finalResults |-> NullData]

\* VQESimulation's useState defaults
CleanSimPage ==
    [selectedMolecule |-> "H2", maxIterations |-> SimDefaultMaxIter,
     running |-> FALSE, currentStage |-> 0, stageData |-> NoStageData,
     convergence |-> 0]

\* no run in progress, no timer, nothing alerted or stored
NoSimRun ==
    [pc |-> "idle", interval |-> FALSE, iteration |-> 0, expected |-> 0,
     alerts |-> 0, started |-> 0, stored |-> NullData]

InitStagedVars ==
    /\ simPage = CleanSimPage
    /\ simRun = NoSimRun

\* a freshly started server: no worker busy, no cached file, no plot written
InitBackendVars ==
    /\ th = [t \in Threads |-> IdleThread]
    /\ hamFile = [m \in Molecules |-> [saved |-> FALSE, by |-> 0]]
    /\ plots = [m \in Molecules |-> 0]
    /\ stats = [c \in Counters |-> [m \in Molecules |-> 0]]
    /\ reqCount = 0

\* one page driving one stream at a time
InitStream == scenario = "stream" /\ InitStreamVars /\ InitBackendVars /\ InitCompareVars /\ InitSweepVars /\ InitStagedVars

NextStream == runSimulation \/ generate \/ EsMessage \/ EsError

SpecStream == InitStream /\ [][NextStream]_vars

\* requests served one after the other
InitPlain == scenario = "plain" /\ InitStreamVars /\ InitBackendVars /\ InitCompareVars /\ InitSweepVars /\ InitStagedVars
NextPlain == \E t \in Threads : NextVqe(t) \/ NextHam(t)
SpecPlain == InitPlain /\ [][NextPlain]_vars

\* GET /api/hamiltonian requests served by concurrent workers
InitCache == scenario = "cache" /\ InitStreamVars /\ InitBackendVars /\ InitCompareVars /\ InitSweepVars /\ InitStagedVars
NextCache == \E t \in Threads : NextHam(t)
SpecCache == InitCache /\ [][NextCache]_vars

----------------------------------------------------------------------------
(* Properties of the request/response pipeline *)

\* a worker holds the successful answer to a run-vqe request
Completed(t) ==
    th[t].pc = "idle" /\ th[t].req.kind = "vqe" /\ th[t].resp.status = 200

\* the iteration numbers of a record list are 1, 2, ..., without a gap
Consecutive(records) ==
    \A k \in 1..Len(records) : records[k].iteration = k

PlainCountIsLength ==
    \A t \in Threads :
        Completed(t) => th[t].resp.num_iterations = Len(th[t].engine.iteration_data)

PastBuild(m) ==
    stats["vqeAnswered"][m]
      + Cardinality({ t \in Threads :
            th[t].pc \in {"optimize", "plots"} /\ th[t].req.molecule = m })

C6_WitnessCached ==
    /\ hamFile["H2"].saved
    /\ stats["vqeOk"]["H2"] = 1
    /\ stats["vqeBuilds"]["H2"] = 1

\* requesters of one molecule's Hamiltonian that were answered got the same
\* construction's result
SameArtifact ==
    \A t1 \in Threads, t2 \in Threads :
        ( /\ th[t1].resp.status = 200 /\ th[t2].resp.status = 200
          /\ th[t1].req.kind = "ham" /\ th[t2].req.kind = "ham"
          /\ th[t1].req.molecule = th[t2].req.molecule )
        => th[t1].resp.artifact = th[t2].resp.artifact

\* C7: requests for a molecule that is not cached yet, arriving concurrently,
\* start one construction between them, and every requester receives the
\* result of that one construction.
C7_SingleConstruction ==
    /\ \A m \in Molecules : stats["hamBuildsOk"][m] <= 1
    /\ SameArtifact

----------------------------------------------------------------------------
(* Both ways of running the pipeline: streamed to a page, or as one request *)

InitRuns ==
    scenario \in {"stream", "plain"} /\ InitStreamVars /\ InitBackendVars /\ InitCompareVars /\ InitSweepVars /\ InitStagedVars
NextRuns == NextStream \/ NextPlain
SpecRuns == InitRuns /\ [][NextRuns]_vars

\* the page was told the stream completed
PageCompleted == calls # <<>> /\ calls[Len(calls)] = "onComplete"

\* C5: at completion of a run the iteration count of the final result equals
\* the length of the run's iteration record list; in a streamed run it also
\* equals the number of vqe/iterating events the page appended to its
\* iteration list for that run.
C5_CountIsLength ==
    /\ PlainCountIsLength
    /\ PageCompleted =>
         /\ page.finalResults.num_iterations = Len(vqe_result.iterations)
         /\ page.finalResults.num_iterations = Len(page.vqeIterations)

\* a streamed run of several iterations that completed at the page
C5_Witness ==
    /\ PageCompleted
    /\ Len(page.vqeIterations) >= 2
    /\ page.finalResults.num_iterations = Len(page.vqeIterations)

----------------------------------------------------------------------------
(* OptimizerComparison: the page, its request and the Winner Analysis card *)

\* the optimizers a comparison runs
Strategies == {"SLSQP", "COBYLA", "SPSA"}

\* final energies and iteration counts a strategy's run can report: two of
\* each, so that three strategies tie and differ in every combination
CompareEnergies == {-2, -1}
CompareIterations == {1, 2}

\* a JSON object whose keys are in insertion order
ObjectKeys(obj) == obj.keys
PutKey(obj, k, v) == [keys |-> Append(obj.keys, k), at |-> (k :> v) @@ obj.at]

\* mutant: the comparison of the energies is reversed
pickBest_Reversed(optimizers, best, current) ==
    IF optimizers.at[current].energy > optimizers.at[best].energy THEN current ELSE best

\* mutant: a later strategy with an equal energy replaces the earlier one
pickBest_LastWins(optimizers, best, current) ==
    IF optimizers.at[current].energy <= optimizers.at[best].energy THEN current ELSE best

\* (best, current) => currentEnergy < bestEnergy ? current : best
pickBest(optimizers, best, current) ==
    IF optimizers.at[current].energy < optimizers.at[best].energy THEN current ELSE best

\* (fastest, current) => currentIter < fastestIter ? current : fastest
pickFastest(optimizers, fastest, current) ==
    IF optimizers.at[current].num_iterations < optimizers.at[fastest].num_iterations
      THEN current ELSE fastest

\* const best = Object.keys(results.optimizers).reduce(...): reduce without
\* an initial value starts from the first key and folds in the others in order
best(results) ==
    LET keys == ObjectKeys(results.optimizers)
        acc[i \in 1..Len(keys)] ==
            IF i = 1 THEN keys[1]
            ELSE pickBest(results.optimizers, acc[i - 1], keys[i])
    IN  acc[Len(keys)]

\* const fastest = Object.keys(results.optimizers).reduce(...)
fastest(results) ==
    LET keys == ObjectKeys(results.optimizers)
        acc[i \in 1..Len(keys)] ==
            IF i = 1 THEN keys[1]
            ELSE pickFastest(results.optimizers, acc[i - 1], keys[i])
    IN  acc[Len(keys)]

\* {results && !running && ...}: the result cards and the Winner Analysis are shown
Shown == ~cmpPage.running /\ cmpPage.results # NoResults

\* onChange of the molecule select (disabled while running)
SelectMolecule ==
    /\ scenario = "compare"
    /\ ~cmpPage.running
    /\ \E mol \in Molecules :
         /\ mol # cmpPage.selectedMolecule
         /\ cmpPage' = [cmpPage EXCEPT !.selectedMolecule = mol]
    /\ UNCHANGED <<scenario, stagedVars, sweepVars, streamVars, backendVars, alerts, session>>

\* the Run button (disabled while running): setRunning(true), then
\* api.runMultiOptimizer(selectedMolecule) posts the request
runComparison ==
    /\ scenario \in {"compare", "liveCompare"}
    /\ ~cmpPage.running
    /\ session.started < MaxComparisons
    /\ cmpPage' = [cmpPage EXCEPT !.running = TRUE]
    /\ session' = [NoSession EXCEPT !.pc = "running",
                                    !.started = session.started + 1,
                                    !.molecule = cmpPage.selectedMolecule,
                                    !.alertsAtStart = alerts]
    /\ UNCHANGED <<scenario, stagedVars, sweepVars, streamVars, backendVars, alerts>>

\* the strategies the session has run so far
Ran(ses) ==
    { ses.optimizers.keys[i] : i \in 1..Len(ses.optimizers.keys) }
        \cup { ses.errors[i].optimizer : i \in 1..Len(ses.errors) }

\* the results of a strategy's run the model follows: every combination, or
\* under fair scheduling a single one
StrategyResults ==
    IF scenario = "liveCompare"
      THEN {[energy |-> -1, num_iterations |-> 1]}
      ELSE { [energy |-> e, num_iterations |-> n] :
               e \in CompareEnergies, n \in CompareIterations }

\* the session runs one more strategy, in no fixed order: its result is kept,
\* or its failure is recorded as an error tagged with the strategy, and the
\* session goes on
SessionRunStrategy ==
    /\ session.pc = "running"
    /\ \E st \in Strategies \ Ran(session) :
         \/ \E r \in StrategyResults :
              session' = [session EXCEPT !.optimizers = PutKey(@, st, r)]
         \/ session' = [session EXCEPT !.errors =
                            Append(@, [optimizer |-> st, error |-> "run failed"])]
    /\ UNCHANGED <<scenario, stagedVars, sweepVars, streamVars, backendVars, cmpPage, alerts>>

\* the session's answer: the results of the strategies that succeeded and the
\* errors of the others; the request fails when no strategy succeeded
SessionResponse(ses) ==
    IF ses.optimizers.keys = <<>>
      THEN [ok |-> FALSE]
      ELSE [ok |-> TRUE,
            data |-> [optimizers |-> ses.optimizers, errors |-> ses.errors]]

\* mutant: a response that carries a strategy's error is treated as a failure
runComparisonResume_RejectsPartial(p, response) ==
    IF response.ok /\ response.data.errors = <<>>
      THEN [page |-> [p EXCEPT !.results = response.data, !.running = FALSE],
            alert |-> 0]
      ELSE [page |-> [p EXCEPT !.running = FALSE], alert |-> 1]

\* runComparison after the await: try { setResults(response.data) }
\* catch { alert(...) } finally { setRunning(false) }
runComparisonResume(p, response) ==
    IF response.ok
      THEN [page |-> [p EXCEPT !.results = response.data, !.running = FALSE],
            alert |-> 0]
      ELSE [page |-> [p EXCEPT !.running = FALSE], alert |-> 1]

\* every strategy has run: the response arrives and runComparison resumes
SessionSettle ==
    /\ session.pc = "running"
    /\ Ran(session) = Strategies
    /\ LET response == SessionResponse(session)
           r == runComparisonResume(cmpPage, response)
       IN  /\ cmpPage' = r.page
           /\ alerts' = alerts + r.alert
           /\ session' = [session EXCEPT !.pc = "settled", !.failed = ~response.ok]
    /\ UNCHANGED <<scenario, stagedVars, sweepVars, streamVars, backendVars>>

\* the request is rejected before an answer arrives (the server is unreachable)
RequestLost ==
    /\ session.pc = "running"
    /\ LET r == runComparisonResume(cmpPage, [ok |-> FALSE]) IN
         /\ cmpPage' = r.page
         /\ alerts' = alerts + r.alert
    /\ session' = [session EXCEPT !.pc = "lost"]
    /\ UNCHANGED <<scenario, stagedVars, sweepVars, streamVars, backendVars>>

InitCompare ==
    scenario = "compare" /\ InitStreamVars /\ InitBackendVars /\ InitCompareVars /\ InitSweepVars /\ InitStagedVars
NextCompare ==
    SelectMolecule \/ runComparison \/ SessionRunStrategy \/ SessionSettle \/ RequestLost
SpecCompare == InitCompare /\ [][NextCompare]_vars

----------------------------------------------------------------------------
(* Properties of the optimizer comparison *)

\* the strategies whose results the page shows
ShownKeys ==
    LET keys == ObjectKeys(cmpPage.results.optimizers)
    IN  { keys[i] : i \in 1..Len(keys) }

ShownAt(k) == cmpPage.results.optimizers.at[k]

\* C8: over the successful results shown, the strategy reported as Lowest
\* Energy has an energy at most that of every other strategy, and the one
\* reported as Fastest Convergence has an iteration count at most that of
\* every other strategy.
C8_WinnersAreMinimal ==
    Shown =>
        \A k \in ShownKeys :
            /\ ShownAt(best(cmpPage.results)).energy <= ShownAt(k).energy
            /\ ShownAt(fastest(cmpPage.results)).num_iterations <= ShownAt(k).num_iterations

\* three results where the two winners differ and neither is the first key
C8_Witness ==
    /\ Shown
    /\ Cardinality(ShownKeys) = 3
    /\ best(cmpPage.results) # fastest(cmpPage.results)
    /\ best(cmpPage.results) # ObjectKeys(cmpPage.results.optimizers)[1]
    /\ fastest(cmpPage.results) # ObjectKeys(cmpPage.results.optimizers)[1]

\* the strategies shown that share the lowest energy
Lowest ==
    { k \in ShownKeys : \A j \in ShownKeys : ShownAt(k).energy <= ShownAt(j).energy }

\* C9 as stated: among the strategies that share the lowest energy, the one
\* reported as Lowest Energy has the fewest iterations
C9_Original ==
    Shown =>
        \A k \in Lowest :
            ShownAt(best(cmpPage.results)).num_iterations <= ShownAt(k).num_iterations

\* C9 (amended): when two or more successful strategies share the lowest
\* final value, the strategy reported as best accuracy is the one among them
\* that comes first in the key order of the response's optimizers object,
\* whatever their iteration counts.
C9_FirstOfTies ==
    Shown =>
        LET keys == ObjectKeys(cmpPage.results.optimizers) IN
        \A i \in 1..Len(keys) :
            ( keys[i] \in Lowest /\ \A j \in 1..(i - 1) : keys[j] \notin Lowest )
                => best(cmpPage.results) = keys[i]

\* a tie on the lowest energy in which the reported strategy took more
\* iterations than another of the tied ones
C9_Witness ==
    /\ Shown
    /\ Cardinality(Lowest) >= 2
    /\ \E k \in Lowest :
         ShownAt(k).num_iterations < ShownAt(best(cmpPage.results)).num_iterations

\* a settled comparison in which exactly one strategy failed
OneFailed == session.pc = "settled" /\ Len(session.errors) = 1

\* C10: when exactly one of the three strategies fails, the other two are
\* still run, the page gets results for exactly those two, both winners are
\* among them, one error tagged with the failed strategy is reported, and the
\* request does not fail; it fails only when every strategy failed.
C10_PartialFailure ==
    /\ OneFailed =>
         /\ ~session.failed
         /\ alerts = session.alertsAtStart
         /\ Shown
         /\ Cardinality(ShownKeys) = 2
         /\ ShownKeys = Strategies \ {session.errors[1].optimizer}
         /\ best(cmpPage.results) \in ShownKeys
         /\ fastest(cmpPage.results) \in ShownKeys
         /\ Len(cmpPage.results.errors) = 1
         /\ cmpPage.results.errors[1].optimizer \in Strategies \ ShownKeys
    /\ session.pc = "settled" =>
         /\ session.failed <=> Len(session.errors) = Cardinality(Strategies)
         /\ alerts > session.alertsAtStart <=> session.failed

\* one strategy failed, the other two succeeded, and the page
\* shows their results
C10_Witness ==
    /\ OneFailed
    /\ Shown
    /\ Len(ObjectKeys(cmpPage.results.optimizers)) = 2
    /\ best(cmpPage.results) # fastest(cmpPage.results)

----------------------------------------------------------------------------
(* BondLengthScan: the page, its request and the sweep the backend runs *)

\* parseFloat(e.target.value) of the Start and End inputs, parseInt of Steps
StartInputs == {Num(5), Num(20), JNaN}
EndInputs == {Num(5), Num(20)}
StepsInputs == {Num(n) : n \in 0..MaxSteps} \cup {Num(DefaultParams.steps.num), JNaN}

\* onChange of one of the three parameter inputs (disabled while scanning)
setParams ==
    /\ scenario = "sweep"
    /\ ~scanPage.scanning
    /\ scan.started < MaxScans
    /\ \/ \E v \in StartInputs \ {scanPage.params.start} :
            scanPage' = [scanPage EXCEPT !.params.start = v]
       \/ \E v \in EndInputs \ {scanPage.params.end} :
            scanPage' = [scanPage EXCEPT !.params.end = v]
       \/ \E v \in StepsInputs \ {scanPage.params.steps} :
            scanPage' = [scanPage EXCEPT !.params.steps = v]
    /\ UNCHANGED <<scenario, stagedVars, streamVars, backendVars, compareVars, scanAlerts, scan>>

\* axios serialises the params with JSON.stringify, which writes NaN as null
ScanBody(params) ==
    [f \in DOMAIN params |-> IF params[f] = JNaN THEN JNull ELSE params[f]]

\* the Run button (disabled while scanning): setScanning(true), then
\* api.bondScan(selectedMolecule, params) posts the request
runScan ==
    /\ scenario \in {"sweep", "liveSweep"}
    /\ ~scanPage.scanning
    /\ scan.started < MaxScans
    /\ scanPage' = [scanPage EXCEPT !.scanning = TRUE]
    /\ scan' = [NoScan EXCEPT !.pc = "posted",
                              !.started = scan.started + 1,
                              !.body = ScanBody(scanPage.params),
                              !.alertsAtStart = scanAlerts]
    /\ UNCHANGED <<scenario, stagedVars, streamVars, backendVars, compareVars, scanAlerts>>

\* mutant: the error of a failed request is stored as the scan's result
runScanResume_StoresError(p, response) ==
    [page |-> [p EXCEPT !.results = response, !.scanning = FALSE],
     alert |-> IF response.ok THEN 0 ELSE 1]

\* runScan after the await: try { setResults(response.data) }
\* catch { alert(...) } finally { setScanning(false) }
runScanResume(p, response) ==
    IF response.ok
      THEN [page |-> [p EXCEPT !.results = response.data, !.scanning = FALSE],
            alert |-> 0]
      ELSE [page |-> [p EXCEPT !.scanning = FALSE], alert |-> 1]

\* a sweep request is valid when start, end and steps are numbers,
\* start < end and steps >= 2
ValidSweep(body) ==
    /\ IsNumber(body.start) /\ IsNumber(body.end) /\ IsNumber(body.steps)
    /\ body.start.num < body.end.num
    /\ body.steps.num >= 2

\* the entry point: an invalid request is rejected before any point is
\* evaluated, and the page's request fails
SweepAccept ==
    /\ scan.pc = "posted"
    /\ IF ValidSweep(scan.body)
         THEN /\ scan' = [scan EXCEPT !.pc = "running"]
              /\ UNCHANGED <<scanPage, scanAlerts>>
         ELSE LET r == runScanResume(scanPage, [ok |-> FALSE]) IN
              /\ scan' = [scan EXCEPT !.pc = "rejected"]
              /\ scanPage' = r.page
              /\ scanAlerts' = scanAlerts + r.alert
    /\ UNCHANGED <<scenario, stagedVars, streamVars, backendVars, compareVars>>

\* the values one point's run can end with, and null for a point that failed
SweepEnergies == {0, 1}
PointOutcomes ==
    IF scenario = "liveSweep" THEN {Num(1), JNull}
    ELSE {Num(e) : e \in SweepEnergies} \cup {JNull}

\* the outcome sequences explored: every one for a sweep of at most MaxSteps
\* points; for a longer sweep those in which at most one point differs from
\* the others
Explored(n, outcomes) ==
    \/ n <= MaxSteps
    \/ \E base \in PointOutcomes :
         Cardinality({ i \in 1..Len(outcomes) : outcomes[i] # base }) <= 1

\* the sweep evaluates its next point: the point's value is recorded, or the
\* point is recorded as failed, and the sweep goes on to the next point
SweepEvalPoint ==
    /\ scan.pc = "running"
    /\ Len(scan.vqe_energies) < scan.body.steps.num
    /\ \E o \in PointOutcomes :
         /\ Explored(scan.body.steps.num, Append(scan.vqe_energies, o))
         /\ scan' = [scan EXCEPT !.vqe_energies = Append(@, o)]
    /\ UNCHANGED <<scenario, stagedVars, streamVars, backendVars, compareVars, scanPage, scanAlerts>>

\* the i-th of n evenly spaced values from start to end, both included, as
\* the fraction n / d of a tenth of an angstrom
GridPoint(body, i) ==
    [n |-> body.start.num * (body.steps.num - 1) + (i - 1) * (body.end.num - body.start.num),
     d |-> body.steps.num - 1]

Grid(body) == [i \in 1..body.steps.num |-> GridPoint(body, i)]

\* the points of a sweep that were evaluated successfully
Succeeded(energies) == { i \in 1..Len(energies) : energies[i] # JNull }

\* the successful points with the lowest value
ArgMins(energies) ==
    { i \in Succeeded(energies) :
        \A j \in Succeeded(energies) : energies[i].num <= energies[j].num }

\* the sweep's answers: the grid, the value or null of every point, and the
\* grid value of a successful point with the lowest value; the request fails
\* when no point succeeded
SweepResponses(sc) ==
    IF Succeeded(sc.vqe_energies) = {}
      THEN { [ok |-> FALSE] }
      ELSE { [ok |-> TRUE,
              data |-> [bond_lengths |-> Grid(sc.body),
                        vqe_energies |-> sc.vqe_energies,
                        equilibrium_bond_length |-> GridPoint(sc.body, i)]] :
             i \in ArgMins(sc.vqe_energies) }

\* every point has been evaluated: the response arrives and runScan resumes
SweepSettle ==
    /\ scan.pc = "running"
    /\ Len(scan.vqe_energies) = scan.body.steps.num
    /\ \E response \in SweepResponses(scan) :
         LET r == runScanResume(scanPage, response) IN
         /\ scanPage' = r.page
         /\ scanAlerts' = scanAlerts + r.alert
         /\ scan' = [scan EXCEPT !.pc = IF response.ok THEN "settled" ELSE "failed"]
    /\ UNCHANGED <<scenario, stagedVars, streamVars, backendVars, compareVars>>

\* the request is rejected before an answer arrives (the server is unreachable)
ScanLost ==
    /\ scan.pc \in {"posted", "running"}
    /\ LET r == runScanResume(scanPage, [ok |-> FALSE]) IN
         /\ scanPage' = r.page
         /\ scanAlerts' = scanAlerts + r.alert
    /\ scan' = [scan EXCEPT !.pc = "lost"]
    /\ UNCHANGED <<scenario, stagedVars, streamVars, backendVars, compareVars>>

\* {results && !scanning && ...}: the result cards and the table are shown
ShownScan == ~scanPage.scanning /\ scanPage.results # JNull

\* a JavaScript condition on a number or null: null and 0 are falsy
Truthy(x) == IsNumber(x) /\ x.num # 0

NA == [text |-> "N/A"]

\* mutant: the table has a row only for the points that have a value
tableRows_SkipsFailed(results) ==
    LET ok == { i \in 1..Len(results.bond_lengths) : results.vqe_energies[i] # JNull }
    IN  [idx \in 1..Cardinality(ok) |->
            [length |-> results.bond_lengths[idx], vqe |-> results.vqe_energies[idx]]]

\* results.bond_lengths.map((length, idx) => <tr>...): one row per bond
\* length, whose VQE cell is
\* results.vqe_energies[idx] ? results.vqe_energies[idx].toFixed(6) : 'N/A'
tableRows(results) ==
    [idx \in 1..Len(results.bond_lengths) |->
        [length |-> results.bond_lengths[idx],
         vqe |-> IF Truthy(results.vqe_energies[idx])
                   THEN results.vqe_energies[idx] ELSE NA]]

\* Math.min(...values) of a non-empty list of numbers, null counting as 0
MathMin(values) ==
    LET v(i) == IF values[i] = JNull THEN 0 ELSE values[i].num
    IN  CHOOSE m \in { v(i) : i \in 1..Len(values) } :
            \A i \in 1..Len(values) : m <= v(i)

\* mutant: the null entries are not filtered out
MinVqeEnergy_NoFilter(results) == MathMin(results.vqe_energies)

\* Math.min(...results.vqe_energies.filter(e => e !== null))
MinVqeEnergy(results) ==
    MathMin(SelectSeq(results.vqe_energies, LAMBDA e : e # JNull))

InitSweep ==
    scenario = "sweep" /\ InitStreamVars /\ InitBackendVars /\ InitCompareVars /\ InitSweepVars /\ InitStagedVars
NextSweep ==
    setParams \/ runScan \/ SweepAccept \/ SweepEvalPoint \/ SweepSettle \/ ScanLost
SpecSweep == InitSweep /\ [][NextSweep]_vars

----------------------------------------------------------------------------
(* Properties of the bond length scan *)

\* the page shows the answer to the scan that has just been settled
ScanSettled == scan.pc = "settled" /\ ShownScan

\* C11: a sweep over [start, end] with steps = n returns, and the table
\* shows, exactly n points; the first is start, the last is end, the values
\* increase and consecutive values differ by (end - start) / (n - 1).
C11_EvenGrid ==
    ScanSettled =>
        LET rows == tableRows(scanPage.results)
            n == scan.body.steps.num
            d == n - 1
        IN  /\ Len(rows) = n
            /\ \A i \in 1..n : rows[i].length.d = d
            /\ rows[1].length.n = scan.body.start.num * d
            /\ rows[n].length.n = scan.body.end.num * d
            /\ \A i \in 1..(n - 1) :
                 /\ rows[i + 1].length.n > rows[i].length.n
                 /\ rows[i + 1].length.n - rows[i].length.n
                      = scan.body.end.num - scan.body.start.num

\* the default sweep of ten points from 0.5 to 2.0 with one failed point
C11_Witness ==
    /\ ScanSettled
    /\ scan.body = ScanBody(DefaultParams)
    /\ \E i \in 1..Len(scan.vqe_energies) : scan.vqe_energies[i] = JNull

\* C12: when exactly one of the n points of a sweep fails, the sweep still
\* returns n points, that point has no value, each of the others has one, and
\* the table shows N/A for exactly that point.
C12_OneFailure ==
    ( /\ ScanSettled
      /\ Cardinality({ i \in 1..Len(scan.vqe_energies) : scan.vqe_energies[i] = JNull }) = 1 )
    => LET rows == tableRows(scanPage.results)
           res == scanPage.results
       IN  /\ Len(res.vqe_energies) = scan.body.steps.num
           /\ Len(rows) = scan.body.steps.num
           /\ \A i \in 1..Len(rows) :
                rows[i].vqe = NA <=> scan.vqe_energies[i] = JNull

Posted == scan.pc \notin {"none", "posted"}

\* C14: a sweep request with start >= end, with steps < 2 or with a value
\* that is not a number is rejected before any point is evaluated, and the
\* page gets no result for it: only valid requests are run, and a rejection
\* raises the page's alert and leaves its results as they were.
C14_InvalidRejected ==
    /\ [](Posted =>
            /\ scan.pc \in {"running", "settled", "failed"} => ValidSweep(scan.body)
            /\ ~ValidSweep(scan.body) =>
                 /\ scan.pc \in {"rejected", "lost"}
                 /\ scan.vqe_energies = <<>>
            /\ scan.pc = "rejected" =>
                 /\ ~scanPage.scanning
                 /\ scanAlerts = scan.alertsAtStart + 1)
    /\ [][scan'.pc = "rejected" => scanPage'.results = scanPage.results]_vars

\* a request whose steps input was empty (NaN, sent as null) was rejected
C14_Witness ==
    /\ scan.pc = "rejected"
    /\ scan.body.steps = JNull
    /\ IsNumber(scan.body.start) /\ IsNumber(scan.body.end)
    /\ scan.body.start.num < scan.body.end.num

----------------------------------------------------------------------------
(* Properties of request validation *)

\* an iteration budget within the configured bounds
InBounds(max_iter) == max_iter >= MIN_ITERATIONS /\ max_iter <= MAX_ITERATIONS_LIMIT

\* C15: a pipeline request, plain or streamed, whose iteration budget is
\* outside 10..500 or whose molecule is not supported is rejected at the
\* entry point: no stage starts and no event is streamed for it.
C15_RejectedAtEntry ==
    /\ \A t \in Threads :
         ( /\ th[t].req.kind = "vqe"
           /\ (th[t].req.molecule \notin Molecules \/ ~InBounds(th[t].req.max_iter)) )
         => /\ th[t].pc = "idle"
            /\ th[t].resp.status = 400
            /\ ~th[t].engine.hamiltonian
    /\ (esState # "none" /\ ~InBounds(srvMaxIter)) => (sent = <<>> /\ srvPc = "start")

----------------------------------------------------------------------------
(* Properties of a stream the subscriber closed *)

\* runVQEStream closed the EventSource after reporting a lost connection
ClosedBySubscriber ==
    /\ calls # <<>>
    /\ calls[Len(calls)] = "onError"
    /\ page.error = "Connection to server lost"

\* the iteration events generate() has yielded
SentIterations == { i \in 1..Len(sent) : StatusOf(sent[i]) = "iterating" }

\* C16: once the subscriber has closed the channel (here while the run is in
\* the optimization stage or at any other point), no further iteration event
\* and no results/complete event is delivered on that channel: until the next
\* run is started the page's iteration list and final results do not change
\* and no callback is made.
C16_NothingAfterClose ==
    [][ (ClosedBySubscriber /\ runs' = runs) =>
          /\ page'.vqeIterations = page.vqeIterations
          /\ page'.finalResults = page.finalResults
          /\ calls' = calls ]_vars

\* the channel was closed after the page had received an iteration and before
\* the results; the server went on and yielded the remaining iterations and
\* the results event, none of which reached the page
C16_Witness ==
    /\ ClosedBySubscriber
    /\ esState = "closed"
    /\ Len(page.vqeIterations) >= 1
    /\ Cardinality(SentIterations) > Len(page.vqeIterations)
    /\ StreamCompleted
    /\ page.finalResults = NullData

\* the energy evaluations the optimizer of the streamed request has made:
\* internal_callback appends one record per evaluation
Evaluations == IF vqe_result.success THEN Len(vqe_result.iterations) ELSE 0

\* C17: after the subscriber has closed the channel the pipeline task makes
\* no new evaluator call beyond the one in flight at the close, and the close
\* itself leaves the stored model artifacts unchanged.  Checked where the
\* task makes its evaluations: once the channel is closed and the generator
\* stands at the optimizer call, at most one more evaluation is made.
C17_StopsAfterClose ==
    [][ /\ (esState = "closed" /\ esState' = "closed" /\ srvPc = "optimize") =>
             Evaluations' <= Evaluations + 1
        /\ (esState = "open" /\ esState' = "closed") =>
             UNCHANGED backendVars ]_vars

----------------------------------------------------------------------------
(* Properties of a failed model construction *)

\* the hamiltonian/complete events generate() has yielded
HamCompleteEvents ==
    { i \in 1..Len(sent) :
        StepOf(sent[i]) = "hamiltonian" /\ StatusOf(sent[i]) = "complete" }

ErrorEvents == { i \in 1..Len(sent) : Has(sent[i], "error") }

\* build_hamiltonian failed in this request: it raised, or it returned a
\* result whose success flag is False
BuildFailed ==
    \/ \E i \in ErrorEvents : sent[i] = EvError("build_hamiltonian failed")
    \/ \E i \in HamCompleteEvents : ~sent[i].data.success

\* C18: when model construction fails, the run emits one error event, no
\* hamiltonian/complete event and no event of a later stage, the stream
\* ends, and the construction is not made again for the request.
C18_BuildFailureEndsRun ==
    BuildFailed =>
      /\ Cardinality(ErrorEvents) = 1
      /\ Has(sent[Len(sent)], "error")
      /\ HamCompleteEvents = {}
      /\ \A i \in 1..Len(sent) :
           StepOf(sent[i]) \notin {"circuit", "vqe", "results"}
      /\ srvPc = "done"

----------------------------------------------------------------------------
(* The staged simulation page (VQESimulation.jsx) *)

\* values typed into the iterations field
SimIterationsInputs == {1, SimDefaultMaxIter}

\* response bodies of POST /api/run-vqe the page tells apart: with and
\* without a vqe_energy
SimVqeResponses == {[vqe_energy |-> -1], [message |-> "ok"]}

\* resetSimulation's setState calls
SimResetSimulation(p) ==
    [p EXCEPT !.currentStage = 0, !.stageData = NoStageData, !.convergence = 0]

\* mutant: the catch clause also removes the stored results
SimCatch_ClearsStored ==
    /\ simPage' = [SimResetSimulation(simPage) EXCEPT !.running = FALSE]
    /\ simRun' = [simRun EXCEPT !.pc = "idle", !.interval = FALSE,
                                !.alerts = simRun.alerts + 1, !.stored = NullData]

\* the catch and finally clauses of runSimulation: alert, resetSimulation
\* (which clears the timer), setRunning(false)
SimCatch ==
    /\ simPage' = [SimResetSimulation(simPage) EXCEPT !.running = FALSE]
    /\ simRun' = [simRun EXCEPT !.pc = "idle", !.interval = FALSE,
                                !.alerts = simRun.alerts + 1]

\* the molecule select, disabled while running
handleMoleculeChange ==
    /\ scenario = "staged"
    /\ ~simPage.running
    /\ \E m \in Molecules :
         simPage' = SimResetSimulation([simPage EXCEPT !.selectedMolecule = m])
    /\ simRun' = [simRun EXCEPT !.interval = FALSE]
    /\ UNCHANGED <<scenario, streamVars, backendVars, compareVars, sweepVars>>

\* the iterations field, disabled while running
SimSetMaxIterations ==
    /\ scenario = "staged"
    /\ ~simPage.running
    /\ \E n \in SimIterationsInputs : simPage' = [simPage EXCEPT !.maxIterations = n]
    /\ UNCHANGED simRun
    /\ UNCHANGED <<scenario, streamVars, backendVars, compareVars, sweepVars>>

\* the Start button: setRunning(true), resetSimulation(), setCurrentStage(1),
\* then getHamiltonian is awaited
SimRunSimulation ==
    /\ scenario = "staged"
    /\ ~simPage.running
    /\ simRun.started < MaxSimRuns
    /\ simPage' = [SimResetSimulation(simPage) EXCEPT !.running = TRUE,
                                                      !.currentStage = 1]
    /\ simRun' = [simRun EXCEPT !.pc = "hamiltonian", !.interval = FALSE,
                                !.started = simRun.started + 1]
    /\ UNCHANGED <<scenario, streamVars, backendVars, compareVars, sweepVars>>

\* getHamiltonian answered
SimHamiltonianOk ==
    /\ simRun.pc = "hamiltonian"
    /\ simPage' = [simPage EXCEPT !.stageData.hamiltonian = simPage.selectedMolecule]
    /\ simRun' = [simRun EXCEPT !.pc = "stage2"]
    /\ UNCHANGED <<scenario, streamVars, backendVars, compareVars, sweepVars>>

\* mutant: the page goes back to the setup stage before the circuit request
SimStageCircuit_Back ==
    /\ simRun.pc = "stage2"
    /\ simPage' = [simPage EXCEPT !.currentStage = 0]
    /\ simRun' = [simRun EXCEPT !.pc = "circuit"]
    /\ UNCHANGED <<scenario, streamVars, backendVars, compareVars, sweepVars>>

\* setCurrentStage(2), then getCircuit is awaited
SimStageCircuit ==
    /\ simRun.pc = "stage2"
    /\ simPage' = [simPage EXCEPT !.currentStage = 2]
    /\ simRun' = [simRun EXCEPT !.pc = "circuit"]
    /\ UNCHANGED <<scenario, streamVars, backendVars, compareVars, sweepVars>>

\* getCircuit answered
SimCircuitOk ==
    /\ simRun.pc = "circuit"
    /\ simPage' = [simPage EXCEPT !.stageData.circuit = simPage.selectedMolecule]
    /\ simRun' = [simRun EXCEPT !.pc = "stage3"]
    /\ UNCHANGED <<scenario, streamVars, backendVars, compareVars, sweepVars>>

\* setCurrentStage(3)
SimStageVqe ==
    /\ simRun.pc = "stage3"
    /\ simPage' = [simPage EXCEPT !.currentStage = 3]
    /\ simRun' = [simRun EXCEPT !.pc = "animate"]
    /\ UNCHANGED <<scenario, streamVars, backendVars, compareVars, sweepVars>>

\* simulateConvergence(maxIterations) starts the timer, then runVQE is awaited
simulateConvergence ==
    /\ simRun.pc = "animate"
    /\ simRun' = [simRun EXCEPT !.pc = "vqe", !.interval = TRUE, !.iteration = 0,
                                !.expected = simPage.maxIterations]
    /\ UNCHANGED simPage
    /\ UNCHANGED <<scenario, streamVars, backendVars, compareVars, sweepVars>>

\* mutant: the callback never compares iteration with expectedIterations
SimTick_NoLimit ==
    /\ simRun.interval
    /\ simRun.iteration < MaxTicks
    /\ simRun' = [simRun EXCEPT !.iteration = simRun.iteration + 1]
    /\ simPage' = [simPage EXCEPT !.convergence = simRun.iteration + 1]
    /\ UNCHANGED <<scenario, streamVars, backendVars, compareVars, sweepVars>>

\* one firing of the setInterval callback
SimTick ==
    /\ simRun.interval
    /\ IF simRun.iteration >= simRun.expected
         THEN /\ simRun' = [simRun EXCEPT !.interval = FALSE]
              /\ UNCHANGED simPage
         ELSE /\ simRun.iteration < MaxTicks
              /\ simRun' = [simRun EXCEPT !.iteration = simRun.iteration + 1]
              /\ simPage' = [simPage EXCEPT !.convergence = simRun.iteration + 1]
    /\ UNCHANGED <<scenario, streamVars, backendVars, compareVars, sweepVars>>

\* runVQE answered: clearInterval, setCurrentStage(4), then the results are
\* stored, or the body without a vqe_energy is thrown to the catch clause
SimVqeResponse ==
    /\ simRun.pc = "vqe"
    /\ \E data \in SimVqeResponses :
         IF "vqe_energy" \in DOMAIN data
           THEN /\ simPage' = [simPage EXCEPT !.currentStage = 4,
                                              !.stageData.finalResults = data,
                                              !.running = FALSE]
                /\ simRun' = [simRun EXCEPT !.pc = "idle", !.interval = FALSE,
                                            !.stored = data]
           ELSE SimCatch
    /\ UNCHANGED <<scenario, streamVars, backendVars, compareVars, sweepVars>>

\* one of the awaited requests is rejected
SimRequestFails ==
    /\ simRun.pc \in {"hamiltonian", "circuit", "vqe"}
    /\ SimCatch
    /\ UNCHANGED <<scenario, streamVars, backendVars, compareVars, sweepVars>>

NextStaged ==
    \/ handleMoleculeChange \/ SimSetMaxIterations \/ SimRunSimulation
    \/ SimHamiltonianOk \/ SimStageCircuit \/ SimCircuitOk \/ SimStageVqe
    \/ simulateConvergence \/ SimTick \/ SimVqeResponse \/ SimRequestFails

\* the two simulation pages
InitPages ==
    scenario \in {"stream", "staged"} /\ InitStreamVars /\ InitBackendVars /\ InitCompareVars /\ InitSweepVars /\ InitStagedVars
NextPages == NextStream \/ NextStaged
SpecPages == InitPages /\ [][NextPages]_vars

----------------------------------------------------------------------------
(* Properties of the pages' stage *)

\* a run of the real-time page ended as Completed or as Failed
RealTimeEnded(p) ==
    \/ p.finalResults # NullData /\ p.currentStep = "results" /\ p.error = "null"
    \/ p.error # "null"

----------------------------------------------------------------------------
(* Properties of the events' shape *)

\* C20 as stated: every event has a status among running, complete and
\* error and an integer progress in 0..100, and an error event carries a
\* message and the stage in which the error occurred.
C20_Original ==
    \A i \in 1..Len(sent) :
      /\ StatusOf(sent[i]) \in {"running", "complete", "error"}
      /\ Has(sent[i], "progress")
      /\ sent[i].progress \in 0..100
      /\ (Has(sent[i], "error") \/ StatusOf(sent[i]) = "error") =>
           /\ Has(sent[i], "message") \/ Has(sent[i], "error")
           /\ Has(sent[i], "step")

\* C20, amended: every event is either an error event, an object holding
\* the error message under the key error and nothing else (no stage, status
\* or progress), or a stage event with a stage among the five stages, a
\* status among running, complete and iterating (iterating only in the vqe
\* stage) and an integer progress in 0..100.
C20_EventShape ==
    \A i \in 1..Len(sent) :
      \/ /\ DOMAIN sent[i] = {"error"}
         /\ sent[i].error # ""
      \/ /\ ~Has(sent[i], "error")
         /\ StepOf(sent[i]) \in Stages
         /\ StatusOf(sent[i]) \in {"running", "complete", "iterating"}
         /\ StatusOf(sent[i]) = "iterating" => StepOf(sent[i]) = "vqe"
         /\ Has(sent[i], "progress")
         /\ sent[i].progress \in 0..100

\* the optimizer raised after the earlier stages had reported running and
\* complete: the stream ends with an error event
C20_Witness ==
    /\ Len(sent) >= 8
    /\ Has(sent[Len(sent)], "error")
    /\ StepOf(sent[Len(sent) - 1]) = "vqe"
    /\ srvPc = "done"

----------------------------------------------------------------------------
(* Properties of delivery order *)

IsPrefix(a, b) == Len(a) <= Len(b) /\ a = SubSeq(b, 1, Len(a))

\* the records of the iteration events generate() has yielded, in order
RECURSIVE IterationRecords(_)
IterationRecords(evs) ==
    IF evs = <<>> THEN <<>>
    ELSE IF StatusOf(Head(evs)) = "iterating"
      THEN <<Head(evs).data>> \o IterationRecords(Tail(evs))
    ELSE IterationRecords(Tail(evs))

\* the next message the EventSource dispatches is an iteration event
NextIsIteration ==
    /\ esState = "open"
    /\ wire # <<>>
    /\ ~ParseThrows(Head(wire))
    /\ StatusOf(JsonParse(Head(wire))) = "iterating"

\* C21: the subscriber observes the events of a channel in emission order:
\* the page's iteration list is always a prefix of the records of the
\* iteration events the server emitted for the run, a received iteration
\* event appends exactly its one record, and during a run the list only
\* grows at its end.
C21_EmissionOrder ==
    /\ [] IsPrefix(page.vqeIterations, IterationRecords(sent))
    /\ [][ /\ (NextIsIteration /\ calls' # calls /\ esState' = "open") =>
                page'.vqeIterations =
                  Append(page.vqeIterations, JsonParse(Head(wire)).data)
           /\ runs' = runs =>
                /\ IsPrefix(page.vqeIterations, page'.vqeIterations)
                /\ Len(page'.vqeIterations) <= Len(page.vqeIterations) + 1 ]_vars

\* the page holds two records with different energies while the server has
\* already emitted a third
C21_Witness ==
    /\ Len(page.vqeIterations) = 2
    /\ page.vqeIterations[1].energy # page.vqeIterations[2].energy
    /\ Len(IterationRecords(sent)) = 3
    /\ esState = "open"

----------------------------------------------------------------------------
(* Properties of the optimizer shown *)

\* <p>SLSQP</p> and "...with SLSQP optimizer": the name the real-time page
\* prints in the optimization panel and in the results message
optimizerShown == "SLSQP"

\* the optimizer the backend picks for the streamed run (the selection is the
\* same in both engine methods)
StreamOptimizer == OptimizerFor(srvMol, StreamMaxIter).name

\* C22: on the real-time page the optimizer name shown during optimization
\* (the panel appears with the first iteration) and in the final results is
\* the optimizer the backend used for the run: SLSQP for H2, COBYLA for LiH.
C22_OptimizerShown ==
    (page.vqeIterations # <<>> \/ page.finalResults # NullData) =>
      /\ optimizerShown = StreamOptimizer
      /\ StreamOptimizer = (IF srvMol = "H2" THEN "SLSQP" ELSE "COBYLA")

----------------------------------------------------------------------------
(* Properties of the iteration budget *)

\* the optimizer generate() runs: run_vqe_with_streaming_callback(max_iter=100)
StreamOptimizerUsed == OptimizerFor(srvMol, StreamMaxIter)

\* C23: the iteration budget set on the page is the budget the run uses: the
\* request carries the page's value as max_iter and the backend runs the
\* optimizer of the run with that max_iter, in a plain run and in a
\* streamed run.
C23_BudgetUsed ==
    /\ \A t \in Threads :
         (th[t].req.kind = "vqe" /\ th[t].engine.vqe_result.success) =>
           OptimizerFor(th[t].req.molecule, th[t].req.max_iter).maxiter
             = th[t].req.max_iter
    /\ vqe_result.success => StreamOptimizerUsed.maxiter = srvMaxIter

----------------------------------------------------------------------------
(* Properties of the causes of failure *)

\* the event is the running event of the stage that calls the evaluator:
\* build_hamiltonian after hamiltonian/running, the optimizer after vqe/running
EntersEvaluatorStage(ev) ==
    /\ StatusOf(ev) = "running"
    /\ StepOf(ev) \in {"hamiltonian", "vqe"}

----------------------------------------------------------------------------
(* Pipeline requests served by concurrent workers *)

InitParallel ==
    scenario = "parallel" /\ InitStreamVars /\ InitBackendVars /\ InitCompareVars /\ InitSweepVars /\ InitStagedVars
NextParallel == \E t \in Threads : NextVqe(t)
SpecParallel == InitParallel /\ [][NextParallel]_vars

\* worker t has answered a run that started while worker u's run, still in
\* progress, was already under way
AnsweredDuring(t, u) ==
    /\ t # u
    /\ th[t].pc = "idle"
    /\ th[t].req.kind = "vqe"
    /\ th[t].resp.status = 200
    /\ th[u].pc # "idle"
    /\ th[u].req.id < th[t].req.id

\* C25: two pipeline runs executing concurrently share no mutable state but
\* the model-artifact cache: what one run reported (its result and the plot
\* files its response names) is never overwritten or altered by the other.
C25_RunsIsolated ==
    [][ \A t \in Threads, u \in Threads :
          AnsweredDuring(t, u) =>
            /\ plots'[th[t].req.molecule] = plots[th[t].req.molecule]
            /\ th'[t].resp = th[t].resp ]_vars

----------------------------------------------------------------------------
(* The four pages with their requests, under fair scheduling *)

InitLive ==
    scenario \in {"live", "staged", "liveCompare", "liveSweep"} /\ InitStreamVars /\ InitBackendVars /\ InitCompareVars /\ InitSweepVars /\ InitStagedVars
\* the comparison and the scan are run with the pages' default inputs
NextLive ==
    \/ NextStream \/ NextStaged
    \/ runComparison \/ SessionRunStrategy \/ SessionSettle \/ RequestLost
    \/ runScan \/ SweepAccept \/ SweepEvalPoint \/ SweepSettle \/ ScanLost

\* the server has ended the response and every event was dispatched: the
\* EventSource reports the closed connection through onerror
StreamEnds == srvPc = "done" /\ wire = <<>> /\ EsError

\* the steps that are bound to happen: the server's generator runs on, the
\* browser dispatches pending messages and reports an ended stream, and an
\* awaited request is answered or fails
Settles ==
    \/ generate \/ EsMessage \/ StreamEnds
    \/ SimHamiltonianOk \/ SimStageCircuit \/ SimCircuitOk \/ SimStageVqe
    \/ simulateConvergence \/ SimVqeResponse \/ SimRequestFails
    \/ SessionRunStrategy \/ SessionSettle \/ RequestLost
    \/ SweepAccept \/ SweepEvalPoint \/ SweepSettle \/ ScanLost

SpecLive == InitLive /\ [][NextLive]_vars /\ WF_vars(Settles)

\* C26: every run started from a page eventually sets the page's running
\* (or scanning) flag back to false, whether the request succeeds, fails or
\* the stream's connection is lost.
C26_RunningCleared ==
    /\ page.running ~> ~page.running
    /\ simPage.running ~> ~simPage.running
    /\ cmpPage.running ~> ~cmpPage.running
    /\ scanPage.scanning ~> ~scanPage.scanning

\* the page's last run was ended by a lost connection after one iteration
\* had arrived, and the server's generator has finished
C26_Witness ==
    /\ runs = MaxRuns
    /\ ~page.running
    /\ page.error = "Connection to server lost"
    /\ Len(page.vqeIterations) = 1
    /\ srvPc = "done"

----------------------------------------------------------------------------
(* The staged simulation page on its own *)

InitStaged ==
    scenario = "staged" /\ InitStreamVars /\ InitBackendVars /\ InitCompareVars /\ InitSweepVars /\ InitStagedVars
SpecStaged == InitStaged /\ [][NextStaged]_vars

\* C27: on the staged page the sessionStorage entry vqe_results is written
\* only after a VQE response that contains vqe_energy; when a stage request
\* fails or the response has no vqe_energy (the catch clause alerts), the
\* stored entry is left as it was, the stage returns to 0, the stage data and
\* the convergence data are cleared and running becomes false.
C27_StoredOnlyOnSuccess ==
    [][ /\ simRun'.stored # simRun.stored =>
             /\ simRun.pc = "vqe"
             /\ "vqe_energy" \in DOMAIN simRun'.stored
             /\ simPage'.stageData.finalResults = simRun'.stored
        /\ simRun'.alerts # simRun.alerts =>
             /\ simRun'.stored = simRun.stored
             /\ simPage'.currentStage = 0
             /\ simPage'.stageData = NoStageData
             /\ simPage'.convergence = 0
             /\ ~simPage'.running ]_vars

\* a run stored its results and the next run failed: the entry is still there
C27_Witness ==
    /\ simRun.started = 2
    /\ simRun.alerts = 1
    /\ simRun.stored # NullData
    /\ simPage.currentStage = 0
    /\ ~simPage.running

----------------------------------------------------------------------------
(* Properties of successive runs of the real-time page *)

\* C29: starting a run on the real-time page closes the EventSource of the
\* previous run before the new one is opened, so the EventSource of an
\* earlier run is never open, at most one stream is open, and the iteration
\* list and final results of a run hold only what its own stream delivered.
C29_OneStream ==
    /\ prevEs # "open"
    /\ IsPrefix(page.vqeIterations, IterationRecords(sent))
    /\ page.finalResults # NullData =>
         /\ sent # <<>>
         /\ page.finalResults = sent[Len(sent)].data

\* a second run receives its events after the first run's source was closed
C29_Witness ==
    /\ runs = 2
    /\ prevEs = "closed"
    /\ esState = "open"
    /\ Len(page.vqeIterations) >= 1

----------------------------------------------------------------------------
(* Properties of runVQEStream's handling of a failed message *)

\* the next message of the open stream does not parse or carries an error
NextMessageFails ==
    /\ esState = "open"
    /\ wire # <<>>
    /\ \/ ParseThrows(Head(wire))
       \/ HasError(JsonParse(Head(wire)))

=============================================================================
